---- MODULE Spec2Model ----
(***************************************************************************)
(* Post Message Service (PMS.js): a publish/subscribe event router on top  *)
(* of window.postMessage.                                                  *)
(*                                                                         *)
(* JavaScript values are tagged records.  A string is a sequence of atoms: *)
(* an atom is either a separator character ("," or " "), a JSON            *)
(* punctuation character, or an opaque run of other characters (a word).   *)
(* Object property names of the registry are such atom sequences.          *)
(***************************************************************************)
EXTENDS Integers, Sequences, FiniteSets, TLC

VARIABLES
    _callbacks,     \* this._callbacks: property name -> array of subscription records
    _targetWindow,  \* this._targetWindow
    _targetOrigin,  \* this._targetOrigin
    _connectionID,  \* this._connectionID
    call,           \* history: the last public call (or delivered message event) and its arguments
    before,         \* history: this._callbacks when that call began
    dispatched,     \* history: the events that call handed to trigger, in order
    fired,          \* history: the callback invocations that call made, in order
    posted,         \* history: the postMessage calls that call made, in order
    thrown          \* history: the exception that call raised, or NoError

vars == <<_callbacks, _targetWindow, _targetOrigin, _connectionID,
          call, before, dispatched, fired, posted, thrown>>

config == <<_targetWindow, _targetOrigin, _connectionID>>

-----------------------------------------------------------------------------
(* Bounds *)

\* largest number of subscription records held by the registry
MaxSubs == 2

-----------------------------------------------------------------------------
(* JavaScript values *)

Undefined == [kind |-> "undefined"]

Null == [kind |-> "null"]

Str(chars) == [kind |-> "string", chars |-> chars]

Num(n) == [kind |-> "number", n |-> n]

Bool(b) == [kind |-> "boolean", b |-> b]

\* an object literal: its own properties (name, value) in insertion order;
\* a property name is a string's atoms
Obj(props) == [kind |-> "object", props |-> props]

Func(id) == [kind |-> "function", id |-> id]

Win(id) == [kind |-> "window", id |-> id]

Prop(k, v) == [k |-> k, v |-> v]

\* ToBoolean(v) = false
Falsy(v) ==
    \/ v.kind \in {"undefined", "null"}
    \/ v.kind = "string" /\ v.chars = <<>>
    \/ v.kind = "number" /\ v.n = 0
    \/ v.kind = "boolean" /\ ~v.b

\* a || b
Or(a, b) == IF Falsy(a) THEN b ELSE a

\* typeof v
TypeOf(v) ==
    CASE v.kind \in {"null", "object", "window"} -> "object"
      [] OTHER -> v.kind

\* reading a property of v raises a TypeError
GetThrows(v) == v.kind \in {"undefined", "null"}

\* v[k] for a value whose property read does not raise: the last own property
\* named k of an object literal, undefined otherwise
Get(v, k) ==
    IF v.kind = "object" /\ \E i \in 1..Len(v.props) : v.props[i].k = k
    THEN LET last == CHOOSE i \in 1..Len(v.props) :
                        /\ v.props[i].k = k
                        /\ \A j \in (i+1)..Len(v.props) : v.props[j].k # k
         IN  v.props[last].v
    ELSE Undefined

\* the property name a value is converted to when used as a key
ToPropertyKey(v) ==
    CASE v.kind = "string"    -> v.chars
      [] v.kind = "undefined" -> <<"undefined">>
      [] v.kind = "null"      -> <<"null">>
      [] v.kind = "number"    -> <<ToString(v.n)>>
      [] v.kind = "boolean"   -> <<IF v.b THEN "true" ELSE "false">>
      [] OTHER                -> <<"[object Object]">>

NoError == "none"

\* TypeError raised by a property read or method call on undefined or null
TypeErrorUndefined == "TypeError: cannot read properties of undefined or null"

\* F(v), with v computed once whatever the number of its uses in F
Bind(v, F(_)) == CHOOSE y \in {F(x) : x \in {v}} : TRUE

-----------------------------------------------------------------------------
(* Splitting a type list *)

\* variant: the pattern /[^\s]+/g, which splits at whitespace only
IsSeparatorBlankOnly(a) == a = " "

\* the characters _splitRegExp excludes from a match: comma and whitespace
IsSeparator(a) == a \in {",", " "}

\* one _splitRegExp.exec(str) from lastIndex: the next maximal run of
\* non-separator atoms, or no match (lastIndex is reset to 0)
RegExpExec(str, lastIndex) ==
    LET starts == {i \in (lastIndex + 1)..Len(str) : ~IsSeparator(str[i])}
    IN  IF starts = {}
        THEN [found |-> FALSE, match |-> <<>>, lastIndex |-> 0]
        ELSE LET s == CHOOSE i \in starts : \A j \in starts : i <= j
                 e == CHOOSE i \in s..Len(str) :
                        /\ \A k \in s..i : ~IsSeparator(str[k])
                        /\ i = Len(str) \/ IsSeparator(str[i + 1])
             IN  [found |-> TRUE, match |-> SubSeq(str, s, e), lastIndex |-> e]

RECURSIVE SplitFrom(_, _)
\* the matches of the loop  while ((typeArr = this._splitRegExp.exec(type)))
SplitFrom(str, lastIndex) ==
    LET r == RegExpExec(str, lastIndex)
    IN  IF r.found THEN <<r.match>> \o SplitFrom(str, r.lastIndex) ELSE <<>>

\* the event names of a type list; the loop always runs to the failed match,
\* so every loop starts with lastIndex = 0
Split(type) == SplitFrom(ToPropertyKey(type), 0)

-----------------------------------------------------------------------------
(* The subscription registry: the own properties of this._callbacks.  Event  *)
(* names are ordinary names; a name that Object.prototype defines (such as   *)
(* "constructor") is not among the inputs.                                   *)

\* this._callbacks[key] is defined
Has(cbs, key) == key \in DOMAIN cbs

\* cbs with property key set to arr
Put(cbs, key, arr) == [k \in DOMAIN cbs \cup {key} |-> IF k = key THEN arr ELSE cbs[k]]

EmptyRegistry == [k \in {} |-> <<>>]

RECURSIVE SumLen(_, _)
SumLen(cbs, keys) ==
    IF keys = {} THEN 0
    ELSE LET k == CHOOSE x \in keys : TRUE
         IN  Len(cbs[k]) + SumLen(cbs, keys \ {k})

\* number of subscription records in the registry
TotalSubs(cbs) == SumLen(cbs, DOMAIN cbs)

RECURSIVE OnTokensUnshift(_, _, _)
\* variant: the loop of on with unshift in place of push
OnTokensUnshift(cbs, names, record) ==
    IF names = <<>> THEN cbs
    ELSE LET eName == Head(names)
             arr   == IF Has(cbs, eName) THEN cbs[eName] ELSE <<>>
         IN  OnTokensUnshift(Put(cbs, eName, <<record>> \o arr), Tail(names), record)

RECURSIVE OnTokens(_, _, _)
\* body of the loop of on: one record pushed per event name
OnTokens(cbs, names, record) ==
    IF names = <<>> THEN cbs
    ELSE LET eName == Head(names)
             arr   == IF Has(cbs, eName) THEN cbs[eName] ELSE <<>>
         IN  OnTokens(Put(cbs, eName, Append(arr, record)), Tail(names), record)

\* PMS.prototype.on: the registry after on(type, callback, context, _once)
on(cbs, type, callback, context, _once) ==
    OnTokens(cbs, Split(type),
             [callback |-> callback,
              context  |-> Or(context, Null),
              once     |-> Or(_once, Bool(FALSE))])

\* PMS.prototype.once
once(cbs, type, callback, context) == on(cbs, type, callback, context, Bool(TRUE))

\* callback === clbk, identity of a value with an array element
StrictEquals(a, b) == a = b

\* callbacks.some(function(clbk, i){ return !!(callback === clbk && callbacks.splice(i, 1)); })
SpliceFirst(arr, callback) ==
    LET hits == {i \in 1..Len(arr) : StrictEquals(callback, arr[i])}
    IN  IF hits = {} THEN arr
        ELSE LET i == CHOOSE h \in hits : \A g \in hits : h <= g
             IN  SubSeq(arr, 1, i - 1) \o SubSeq(arr, i + 1, Len(arr))

\* PMS.prototype._offCallback
_offCallback(cbs, type, callback) ==
    LET key == ToPropertyKey(type)
    IN  IF Has(cbs, key) THEN Put(cbs, key, SpliceFirst(cbs[key], callback)) ELSE cbs

\* variant: _off that replaces the registry, as off() does
_offEverything(cbs, type, callback) == EmptyRegistry

\* PMS.prototype._off: delete this._callbacks[type]
_off(cbs, type, callback) ==
    [k \in DOMAIN cbs \ {ToPropertyKey(type)} |-> cbs[k]]

RECURSIVE OffTokens(_, _, _)
OffTokens(cbs, names, callback) ==
    IF names = <<>> THEN cbs
    ELSE LET next == IF ~Falsy(callback)
                     THEN _offCallback(cbs, Str(Head(names)), callback)
                     ELSE _off(cbs, Str(Head(names)), callback)
         IN  OffTokens(next, Tail(names), callback)

\* variant: off without the branch that replaces the registry when no type is given
offWithoutClearAll(cbs, type, callback) ==
    OffTokens(cbs, Split(Or(type, Null)), Or(callback, Null))

\* PMS.prototype.off: the registry after off(type, callback)
off(cbs, type, callback) ==
    IF Falsy(Or(type, Null)) THEN EmptyRegistry
    ELSE OffTokens(cbs, Split(type), Or(callback, Null))

-----------------------------------------------------------------------------
(* Dispatch *)

\* new InternalEvent({type, data, rawEvent})
InternalEvent(type, data, rawEvent) == [type |-> type, data |-> data, rawEvent |-> rawEvent]

\* item.type: a subscription record has no property "type"
ItemType(item) == IF "type" \in DOMAIN item THEN item.type ELSE Undefined

\* one invocation of a callback: item.callback(e) or item.callback.call(context, e)
Invocation(item, e) ==
    [callback |-> item.callback,
     this     |-> IF Falsy(item.context) THEN Undefined ELSE item.context,
     e        |-> e]

\* what an invoked callback does with the service before it returns.  f and g
\* return at once; the others make one call: off in one of its forms, or on.
Run(callback, e, cbs) ==
    CASE callback = Func("offSelf")  -> off(cbs, e.type, callback)
      [] callback = Func("offOther") -> off(cbs, e.type, Func("f"))
      [] callback = Func("offType")  -> off(cbs, e.type, Undefined)
      [] callback = Func("offAll")   -> off(cbs, Undefined, Undefined)
      [] callback = Func("onType")   -> on(cbs, e.type, Func("f"), Undefined, Undefined)
      [] callback = Func("onAll")    -> on(cbs, Str(<<"all">>), Func("f"), Undefined, Undefined)
      [] OTHER                       -> cbs

\* the arrays that a call removed from the registry (delete, or a new {}):
\* the local variables of a running trigger still hold them
Detach(gone, old, new) ==
    LET lost == (DOMAIN old \ DOMAIN new) \ DOMAIN gone
    IN  [k \in DOMAIN gone \cup lost |-> IF k \in DOMAIN gone THEN gone[k] ELSE old[k]]

\* the array that trigger read from this._callbacks[key] when it began: the one
\* in the registry (pushes and splices show in it), or the one removed since
Local(st, key) == IF key \in DOMAIN st.gone THEN st.gone[key] ELSE st.cbs[key]

\* the function that _fire passes to forEach, applied to one record: the
\* invocation, what the callback does, and the removal of a record marked once
FireItem(st, item, e) ==
    Bind(Run(item.callback, e, st.cbs), LAMBDA ran :
        [cbs  |-> IF ~Falsy(item.once)
                  THEN _offCallback(ran, ItemType(item), item.callback)
                  ELSE ran,
         log  |-> Append(st.log, Invocation(item, e)),
         gone |-> Detach(st.gone, st.cbs, ran)])

RECURSIVE FireFrom(_, _, _, _, _)
\* callbacks.forEach from index i: the array is read live, the range of indices
\* is the length at the start of the forEach
FireFrom(st, key, i, len, e) ==
    IF i > len THEN st
    ELSE IF i > Len(Local(st, key)) THEN FireFrom(st, key, i + 1, len, e)
    ELSE Bind(FireItem(st, Local(st, key)[i], e),
              LAMBDA next : FireFrom(next, key, i + 1, len, e))

\* PMS.prototype._fire on the array read from the registry under key
_fire(st, e, key) == FireFrom(st, key, 1, Len(Local(st, key)), e)

AllKey == <<"all">>

\* variant: trigger that fires the subscribers of "all" before those of the type
triggerWildcardFirst(cbs, type, data, rawEvent) ==
    LET key       == ToPropertyKey(type)
        callbacks == Has(cbs, key)
        all       == Has(cbs, AllKey)
        e         == InternalEvent(type, Or(data, Null), rawEvent)
        st0       == [cbs |-> cbs, log |-> <<>>, gone |-> EmptyRegistry]
    IN  Bind(IF all THEN _fire(st0, e, AllKey) ELSE st0, LAMBDA st1 :
        Bind(IF callbacks THEN _fire(st1, e, key) ELSE st1, LAMBDA st2 :
            [cbs |-> st2.cbs, log |-> st2.log, events |-> <<e>>]))

\* PMS.prototype.trigger: the registry after trigger(type, data, rawEvent), the
\* invocations it made and the event it built.  callbacks and all are read
\* from the registry before the first callback runs.
trigger(cbs, type, data, rawEvent) ==
    LET key       == ToPropertyKey(type)
        callbacks == Has(cbs, key)
        all       == Has(cbs, AllKey)
        e         == InternalEvent(type, Or(data, Null), rawEvent)
        st0       == [cbs |-> cbs, log |-> <<>>, gone |-> EmptyRegistry]
    IN  Bind(IF callbacks THEN _fire(st0, e, key) ELSE st0, LAMBDA st1 :
        Bind(IF all THEN _fire(st1, e, AllKey) ELSE st1, LAMBDA st2 :
            [cbs |-> st2.cbs, log |-> st2.log, events |-> <<e>>]))

-----------------------------------------------------------------------------
(* JSON text: a string whose atoms are JSON tokens.  The atoms of a string  *)
(* value contain no quote and no backslash, so a string literal is the      *)
(* atoms between two quotes.                                                *)

Quote == "\""

\* the numbers a JSON text of the model can hold
Numerals == 0..9

\* own properties that JSON.stringify writes: undefined and function values are left out
Serializable(v) == v.kind \notin {"undefined", "function"}

RECURSIVE Stringify(_)
RECURSIVE StringifyProps(_, _)
\* JSON.stringify(v) for a serializable v: the atoms of the text
Stringify(v) ==
    CASE v.kind = "null"    -> <<"null">>
      [] v.kind = "boolean" -> <<IF v.b THEN "true" ELSE "false">>
      [] v.kind = "number"  -> <<ToString(v.n)>>
      [] v.kind = "string"  -> <<Quote>> \o v.chars \o <<Quote>>
      [] v.kind = "object"  -> <<"{">> \o StringifyProps(v.props, TRUE) \o <<"}">>

StringifyProps(props, first) ==
    IF props = <<>> THEN <<>>
    ELSE LET p == Head(props)
         IN  IF Serializable(p.v)
             THEN (IF first THEN <<>> ELSE <<",">>)
                  \o <<Quote>> \o p.k \o <<Quote, ":">> \o Stringify(p.v)
                  \o StringifyProps(Tail(props), FALSE)
             ELSE StringifyProps(Tail(props), first)

\* JSON.stringify(v) as a string value
JSONstringify(v) == Str(Stringify(v))

ParseFail == [ok |-> FALSE, v |-> Undefined, next |-> 0]

RECURSIVE SkipSpace(_, _)
SkipSpace(t, i) == IF i <= Len(t) /\ t[i] = " " THEN SkipSpace(t, i + 1) ELSE i

RECURSIVE ParseValue(_, _)
RECURSIVE ParseMembers(_, _, _)
\* the JSON value that starts at atom i0 of t, and the index after it
ParseValue(t, i0) ==
    Bind(SkipSpace(t, i0), LAMBDA i :
        IF i > Len(t) THEN ParseFail
        ELSE CASE t[i] = "null"  -> [ok |-> TRUE, v |-> Null, next |-> i + 1]
               [] t[i] = "true"  -> [ok |-> TRUE, v |-> Bool(TRUE), next |-> i + 1]
               [] t[i] = "false" -> [ok |-> TRUE, v |-> Bool(FALSE), next |-> i + 1]
               [] \E n \in Numerals : t[i] = ToString(n) ->
                    [ok |-> TRUE,
                     v |-> Num(CHOOSE n \in Numerals : t[i] = ToString(n)),
                     next |-> i + 1]
               [] t[i] = Quote ->
                    LET ends == {j \in (i + 1)..Len(t) : t[j] = Quote}
                    IN  IF ends = {} THEN ParseFail
                        ELSE LET j == CHOOSE x \in ends : \A y \in ends : x <= y
                             IN  [ok |-> TRUE, v |-> Str(SubSeq(t, i + 1, j - 1)), next |-> j + 1]
               [] t[i] = "{" ->
                    LET k == SkipSpace(t, i + 1)
                    IN  IF k <= Len(t) /\ t[k] = "}"
                        THEN [ok |-> TRUE, v |-> Obj(<<>>), next |-> k + 1]
                        ELSE ParseMembers(t, k, <<>>)
               [] OTHER -> ParseFail)

\* the members of an object from atom i, after the members already read
ParseMembers(t, i, props) ==
    Bind(ParseValue(t, i), LAMBDA key :
        IF ~key.ok \/ key.v.kind # "string" THEN ParseFail
        ELSE Bind(SkipSpace(t, key.next), LAMBDA c :
            IF c > Len(t) \/ t[c] # ":" THEN ParseFail
            ELSE Bind(ParseValue(t, c + 1), LAMBDA val :
                IF ~val.ok THEN ParseFail
                ELSE Bind(SkipSpace(t, val.next), LAMBDA d :
                    IF d > Len(t) THEN ParseFail
                    ELSE IF t[d] = "}"
                         THEN [ok   |-> TRUE,
                               v    |-> Obj(Append(props, Prop(key.v.chars, val.v))),
                               next |-> d + 1]
                    ELSE IF t[d] = ","
                         THEN ParseMembers(t, d + 1, Append(props, Prop(key.v.chars, val.v)))
                    ELSE ParseFail))))

\* JSON.parse(text): ok is FALSE where it raises a SyntaxError
JSONparse(text) ==
    Bind(ToPropertyKey(text), LAMBDA t :
        Bind(ParseValue(t, 1), LAMBDA r :
            IF r.ok /\ SkipSpace(t, r.next) = Len(t) + 1 THEN r ELSE ParseFail))

-----------------------------------------------------------------------------
(* The channel endpoint *)

\* PMS.prototype.set: the settings stored by set(sets)
set(sets) ==
    LET s == Or(sets, Obj(<<>>))
    IN  [targetWindow |-> Get(s, <<"targetWindow">>),
         targetOrigin |-> Or(Get(s, <<"targetOrigin">>), Str(<<"*">>)),
         connectionID |-> Or(Get(s, <<"connectionID">>), Null)]

\* the message of the TypeError that send throws
IncorrectDataType == "TypeError: incorrect data type. Should be an Object"

\* this._targetWindow.postMessage(message, this._targetOrigin)
PostMessage(targetWindow, message, targetOrigin) ==
    IF GetThrows(targetWindow)
    THEN [posted |-> <<>>, thrown |-> TypeErrorUndefined]
    ELSE [posted |-> <<[to |-> targetWindow, message |-> message, targetOrigin |-> targetOrigin]>>,
          thrown |-> NoError]

\* PMS.prototype.send: what send(type, data) posts and throws
send(targetWindow, targetOrigin, connectionID, type, data) ==
    LET d == Or(data, Null)
    IN  IF TypeOf(d) = "object"
        THEN PostMessage(targetWindow,
                         JSONstringify(Obj(<<Prop(<<"connectionID">>, connectionID),
                                             Prop(<<"data">>, d),
                                             Prop(<<"type">>, type)>>)),
                         targetOrigin)
        ELSE [posted |-> <<>>, thrown |-> IncorrectDataType]

\* PMS.prototype.sendRAW: what sendRAW(message) posts and throws
sendRAW(targetWindow, targetOrigin, message) ==
    PostMessage(targetWindow, JSONstringify(Or(message, Null)), targetOrigin)

\* a call that changed nothing and invoked nothing
Dropped(cbs) == [cbs |-> cbs, log |-> <<>>, events |-> <<>>, thrown |-> NoError]

\* a call that ended in this.trigger(type, data, rawEvent)
Dispatched(st) ==
    Bind(st, LAMBDA t : [cbs |-> t.cbs, log |-> t.log, events |-> t.events, thrown |-> NoError])

\* variant: _processMessage without the connectionID condition
_processMessageUnfiltered(cbs, connectionID, postJSON) ==
    Bind(JSONparse(postJSON), LAMBDA r :
    LET parsed   == IF r.ok THEN r.v ELSE Undefined
        caught   == ~r.ok \/ GetThrows(parsed)
        type     == IF caught THEN Str(<<"message">>) ELSE Get(parsed, <<"type">>)
        data     == IF caught THEN Null ELSE Get(parsed, <<"data">>)
        rawEvent == IF caught THEN postJSON ELSE parsed
    IN  Dispatched(trigger(cbs, type, data, rawEvent)))

\* variant: _processMessage whose catch block returns instead of falling back to "message"
_processMessageDropsMalformed(cbs, connectionID, postJSON) ==
    Bind(JSONparse(postJSON), LAMBDA r :
    LET parsed   == IF r.ok THEN r.v ELSE Undefined
        caught   == ~r.ok \/ GetThrows(parsed)
    IN  IF caught THEN Dropped(cbs)
        ELSE IF Falsy(connectionID) \/ StrictEquals(connectionID, Get(parsed, <<"connectionID">>))
        THEN Dispatched(trigger(cbs, Get(parsed, <<"type">>), Get(parsed, <<"data">>), parsed))
        ELSE Dropped(cbs))

\* variant: _processMessage that hands the decoded data to trigger as rawEvent
_processMessageDataAsRawEvent(cbs, connectionID, postJSON) ==
    Bind(JSONparse(postJSON), LAMBDA r :
    LET parsed   == IF r.ok THEN r.v ELSE Undefined
        caught   == ~r.ok \/ GetThrows(parsed)
        type     == IF caught THEN Str(<<"message">>) ELSE Get(parsed, <<"type">>)
        data     == IF caught THEN Null ELSE Get(parsed, <<"data">>)
    IN  IF Falsy(connectionID)
        THEN Dispatched(trigger(cbs, type, data, data))
        ELSE IF GetThrows(parsed)
        THEN [cbs |-> cbs, log |-> <<>>, events |-> <<>>, thrown |-> TypeErrorUndefined]
        ELSE IF StrictEquals(connectionID, Get(parsed, <<"connectionID">>))
        THEN Dispatched(trigger(cbs, type, data, data))
        ELSE Dropped(cbs))

\* PMS.prototype._processMessage: registry, invocation log and exception
_processMessage(cbs, connectionID, postJSON) ==
    Bind(JSONparse(postJSON), LAMBDA r :
    LET parsed   == IF r.ok THEN r.v ELSE Undefined
        caught   == ~r.ok \/ GetThrows(parsed)
        type     == IF caught THEN Str(<<"message">>) ELSE Get(parsed, <<"type">>)
        data     == IF caught THEN Null ELSE Get(parsed, <<"data">>)
        rawEvent == IF caught THEN postJSON ELSE parsed
    IN  IF Falsy(connectionID)
        THEN Dispatched(trigger(cbs, type, data, rawEvent))
        ELSE IF GetThrows(parsed)
        THEN [cbs |-> cbs, log |-> <<>>, events |-> <<>>, thrown |-> TypeErrorUndefined]
        ELSE IF StrictEquals(connectionID, Get(parsed, <<"connectionID">>))
        THEN Dispatched(trigger(cbs, type, data, rawEvent))
        ELSE Dropped(cbs))

\* variant: _receive without the check of the source
_receiveAnySource(cbs, targetWindow, connectionID, e) ==
    _processMessage(cbs, connectionID, e.data)

\* PMS.prototype._receive: the handler of the window's "message" event
_receive(cbs, targetWindow, connectionID, e) ==
    IF StrictEquals(e.source, targetWindow)
    THEN _processMessage(cbs, connectionID, e.data)
    ELSE Dropped(cbs)

-----------------------------------------------------------------------------
(* Inputs *)

Context == Obj(<<Prop(<<"name">>, Str(<<"ctx">>))>>)

\* the (callback, context) pairs that callers subscribe: f unbound, g bound to Context
Subscribers == {<<Func("f"), Undefined>>, <<Func("g"), Context>>}

\* event names used by the callers of the router; "all" is the wildcard
Words == {"hello", "hi", "all"}

\* what callers write between the event names of a type list
Separators == {<<" ">>, <<",", " ">>}

\* the type lists callers pass: the empty string, one event name, two event names
TypeLists ==
    {Str(<<>>)}
    \cup {Str(<<w>>) : w \in Words}
    \cup {Str(<<v>> \o sep \o <<w>>) : v \in Words, w \in Words, sep \in Separators}

DataObject == Obj(<<Prop(<<"to">>, Str(<<"John">>))>>)

Windows == {Win("parent"), Win("frame")}

ConnectionIDs == {Str(<<"svc1">>), Str(<<"svc2">>)}

\* a settings object with the given properties; an undefined one is left out
Settings(targetWindow, connectionID, targetOrigin) ==
    Obj(SelectSeq(<<Prop(<<"targetWindow">>, targetWindow),
                    Prop(<<"connectionID">>, connectionID),
                    Prop(<<"targetOrigin">>, targetOrigin)>>,
                  LAMBDA p : p.v # Undefined))

SettingsInputs ==
    {Undefined} \cup
    {Settings(w, c, o) : w \in Windows \cup {Undefined},
                         c \in {Undefined, Str(<<>>), Str(<<"svc1">>)},
                         o \in {Undefined, Str(<<"http://peer">>)}}

\* new PMS({targetWindow: window.parent})
InitSettings == Settings(Win("parent"), Undefined, Undefined)

\* event names used over the channel; "message" is the raw fallback type
ChannelWords == {"hello", "message", "all"}

ChannelTypes == {Str(<<w>>) : w \in ChannelWords}

SendData ==
    {Undefined, Null, DataObject, Obj(<<>>),
     Str(<<>>), Str(<<"John">>), Num(0), Num(1), Bool(FALSE), Bool(TRUE)}

RawMessages == {Undefined, Null, Str(<<"Hi", " ", "Jack">>), Num(1),
                Obj(<<Prop(<<"eventName">>, Str(<<"hello">>))>>)}

\* the envelope object that send builds
Envelope(connectionID, type, data) ==
    Obj(<<Prop(<<"connectionID">>, connectionID),
          Prop(<<"data">>, data),
          Prop(<<"type">>, type)>>)

\* data with a nested object, a number, a boolean and null
NestedData ==
    Obj(<<Prop(<<"to">>, Obj(<<Prop(<<"name">>, Str(<<"John">>))>>)),
          Prop(<<"age">>, Num(7)),
          Prop(<<"here">>, Bool(TRUE)),
          Prop(<<"cc">>, Null)>>)

\* the objects sent as data: the last one has a property that holds undefined
RoundTripData ==
    {DataObject, NestedData, Obj(<<>>),
     Obj(<<Prop(<<"to">>, Str(<<"John">>)), Prop(<<"cc">>, Undefined)>>)}

\* the text that send(type, data) of a peer endpoint with connectionID id posts
SendWire(id, type, data) ==
    send(Win("frame"), Str(<<"*">>), id, type, data).posted[1].message

\* texts that are not JSON
Malformed == {Str(<<"Hi", " ", "Jack">>), Str(<<"{", Quote, "type", Quote>>)}

\* payloads a peer can deliver: envelopes, raw JSON values, and text that is not JSON
InboundPayloads ==
    {JSONstringify(Envelope(c, t, d)) : c \in ConnectionIDs \cup {Undefined, Null},
                                        t \in {Str(<<"hello">>), Undefined},
                                        d \in {Null, DataObject}}
    \cup {SendWire(c, Str(<<"hello">>), d) : c \in {Null, Str(<<"svc1">>)}, d \in RoundTripData}
    \cup {JSONstringify(Or(m, Null)) : m \in RawMessages}
    \cup Malformed

\* payloads delivered to the router alone: envelopes without connectionID
RouterPayloads == {JSONstringify(Envelope(Null, Str(<<w>>), DataObject)) : w \in Words}

-----------------------------------------------------------------------------
(* State machine *)

\* var pms = new PMS(InitSettings)
Init ==
    LET c == set(InitSettings)
    IN  /\ _targetWindow = c.targetWindow
        /\ _targetOrigin = c.targetOrigin
        /\ _connectionID = c.connectionID
        /\ _callbacks = EmptyRegistry
        /\ call = [op |-> "new", args |-> <<InitSettings>>]
        /\ before = EmptyRegistry
        /\ dispatched = <<>>
        /\ fired = <<>>
        /\ posted = <<>>
        /\ thrown = NoError

\* the history of a call op(args) that began in the current state
Called(op, args) ==
    /\ call' = [op |-> op, args |-> args]
    /\ before' = _callbacks

\* a call that dispatches nothing, posts nothing and returns normally
Quiet == dispatched' = <<>> /\ fired' = <<>> /\ posted' = <<>> /\ thrown' = NoError

\* pms.on(type, callback, context)
On(type, callback, context) ==
    LET cbs == on(_callbacks, type, callback, context, Undefined)
    IN  /\ TotalSubs(cbs) <= MaxSubs
        /\ _callbacks' = cbs
        /\ Called("on", <<type, callback, context>>)
        /\ Quiet
        /\ UNCHANGED config

\* pms.once(type, callback, context)
Once(type, callback, context) ==
    LET cbs == once(_callbacks, type, callback, context)
    IN  /\ TotalSubs(cbs) <= MaxSubs
        /\ _callbacks' = cbs
        /\ Called("once", <<type, callback, context>>)
        /\ Quiet
        /\ UNCHANGED config

\* pms.off(type, callback)
Off(type, callback) ==
    /\ _callbacks' = off(_callbacks, type, callback)
    /\ Called("off", <<type, callback>>)
    /\ Quiet
    /\ UNCHANGED config

\* pms.trigger(type, data, rawEvent); callbacks that subscribe do so up to
\* one record beyond MaxSubs
Trigger(type, data, rawEvent) ==
    \E st \in {trigger(_callbacks, type, data, rawEvent)} :
        /\ TotalSubs(st.cbs) <= MaxSubs + 1
        /\ _callbacks' = st.cbs
        /\ dispatched' = st.events
        /\ fired' = st.log
        /\ Called("trigger", <<type, data, rawEvent>>)
        /\ posted' = <<>>
        /\ thrown' = NoError
        /\ UNCHANGED config

\* the window delivers a "message" event e = {source, data} to the listener
Receive(source, data) ==
    \E st \in {_receive(_callbacks, _targetWindow, _connectionID,
                         [source |-> source, data |-> data])} :
        /\ _callbacks' = st.cbs
        /\ dispatched' = st.events
        /\ fired' = st.log
        /\ thrown' = st.thrown
        /\ Called("message", <<source, data>>)
        /\ posted' = <<>>
        /\ UNCHANGED config

\* variant: set that also runs the constructor's  this._callbacks = {}
SetLikeConstructor(sets) ==
    LET c == set(sets)
    IN  /\ _targetWindow' = c.targetWindow
        /\ _targetOrigin' = c.targetOrigin
        /\ _connectionID' = c.connectionID
        /\ _callbacks' = EmptyRegistry
        /\ Called("set", <<sets>>)
        /\ Quiet

\* pms.set(sets)
Set(sets) ==
    LET c == set(sets)
    IN  /\ _targetWindow' = c.targetWindow
        /\ _targetOrigin' = c.targetOrigin
        /\ _connectionID' = c.connectionID
        /\ Called("set", <<sets>>)
        /\ Quiet
        /\ UNCHANGED _callbacks

\* pms.send(type, data)
Send(type, data) ==
    LET r == send(_targetWindow, _targetOrigin, _connectionID, type, data)
    IN  /\ posted' = r.posted
        /\ thrown' = r.thrown
        /\ Called("send", <<type, data>>)
        /\ dispatched' = <<>>
        /\ fired' = <<>>
        /\ UNCHANGED <<_callbacks, config>>

\* pms.sendRAW(message)
SendRAW(message) ==
    LET r == sendRAW(_targetWindow, _targetOrigin, message)
    IN  /\ posted' = r.posted
        /\ thrown' = r.thrown
        /\ Called("sendRAW", <<message>>)
        /\ dispatched' = <<>>
        /\ fired' = <<>>
        /\ UNCHANGED <<_callbacks, config>>

\* the router: subscriptions and dispatch under the settings of the constructor
Next ==
    \/ \E t \in TypeLists, s \in Subscribers : On(t, s[1], s[2])
    \/ \E t \in TypeLists, s \in Subscribers : Once(t, s[1], s[2])
    \/ \E t \in TypeLists \cup {Undefined}, cb \in {Undefined, Func("f")} : Off(t, cb)
    \/ \E t \in TypeLists : Trigger(t, Undefined, Undefined)
    \/ \E m \in RouterPayloads : Receive(_targetWindow, m)

Spec == Init /\ [][Next]_vars

\* the channel: settings, outbound and inbound messages, single-name subscriptions
NextChannel ==
    \/ \E s \in SettingsInputs : Set(s)
    \/ \E d \in SendData : Send(Str(<<"hello">>), d)
    \/ \E m \in RawMessages : SendRAW(m)
    \/ \E w \in Windows, m \in InboundPayloads : Receive(w, m)
    \/ \E t \in ChannelTypes : On(t, Func("f"), Undefined)

SpecChannel == Init /\ [][NextChannel]_vars

\* callbacks that call off or on when they are invoked
ActiveCallbacks ==
    {Func(id) : id \in {"offSelf", "offOther", "offType", "offAll", "onType", "onAll"}}

\* the router with callbacks that call back into it during a dispatch
NextReentrant ==
    \/ \E w \in {"hello", "all"}, cb \in ActiveCallbacks \cup {Func("f"), Func("g")} :
            On(Str(<<w>>), cb, Undefined)
    \/ \E w \in Words : Trigger(Str(<<w>>), Undefined, Undefined)

SpecReentrant == Init /\ [][NextReentrant]_vars

-----------------------------------------------------------------------------
(* Vocabulary of the properties *)

\* the records held under a property name, none when the name is absent
RecordsOf(cbs, key) == IF Has(cbs, key) THEN cbs[key] ELSE <<>>

\* the records of an array that are not marked once
NotOnce(arr) == SelectSeq(arr, LAMBDA r : Falsy(r.once))

\* the records of an array whose callback is cb
RecordsWith(arr, cb) == SelectSeq(arr, LAMBDA r : r.callback = cb)

\* arr without its first record whose callback is cb
WithoutFirst(arr, cb) ==
    LET hits == {i \in 1..Len(arr) : arr[i].callback = cb}
    IN  IF hits = {} THEN arr
        ELSE LET i == CHOOSE h \in hits : \A g \in hits : h <= g
             IN  SubSeq(arr, 1, i - 1) \o SubSeq(arr, i + 1, Len(arr))

\* the event names a caller lists in a type list of TypeLists: its atoms other
\* than commas and blanks, one name each
ListedNames(type) ==
    LET words == SelectSeq(type.chars, LAMBDA a : a \notin {",", " "})
    IN  [i \in 1..Len(words) |-> <<words[i]>>]

\* how many times name occurs among the event names of a type list
Occurrences(name, names) == Cardinality({i \in 1..Len(names) : names[i] = name})

\* how many of the invocations of a log call cb
InvokedTimes(cb, log) == Len(SelectSeq(log, LAMBDA i : i.callback = cb))

\* the invocations that a trigger of one type makes from registry cbs
Invocations(cbs, type) == trigger(cbs, type, Undefined, Undefined).log

\* the invocations of the records of arr, in order, with event e
InvokeAll(arr, e) == [i \in 1..Len(arr) |-> Invocation(arr[i], e)]

RECURSIVE TriggerEach(_, _, _, _)
\* one trigger per event name, left to right
TriggerEach(cbs, names, data, rawEvent) ==
    IF names = <<>> THEN [cbs |-> cbs, log |-> <<>>]
    ELSE LET st   == trigger(cbs, Str(Head(names)), data, rawEvent)
             rest == TriggerEach(st.cbs, Tail(names), data, rawEvent)
         IN  [cbs |-> rest.cbs, log |-> st.log \o rest.log]

Hello == Str(<<"hello">>)

HelloHi == Str(<<"hello", ",", " ", "hi">>)

-----------------------------------------------------------------------------
(* Properties *)

\* C1: a subscription made with once is invoked exactly once in total: in a
\* dispatch of type T that directly follows a dispatch of type T, no record
\* marked once is invoked, only the records not marked once under T and "all".
C1_OnceInvokedOnce ==
    [][(/\ dispatched # <<>>
        /\ dispatched' # <<>>
        /\ dispatched'[1].type = dispatched[1].type)
       => Len(fired') =
            Len(NotOnce(RecordsOf(_callbacks, ToPropertyKey(dispatched'[1].type))))
            + Len(NotOnce(RecordsOf(_callbacks, AllKey)))]_vars

\* C2: off(typeList, cb) removes, under each event name of typeList, exactly
\* the first record whose callback is cb (so cb is invoked once less), and
\* leaves the other records of that name and all other names unchanged.
C2_OffCallbackRemovesFirst ==
    (call.op = "off" /\ ~Falsy(call.args[1]) /\ ~Falsy(call.args[2])) =>
        \A key \in DOMAIN before \cup DOMAIN _callbacks :
            LET n == Occurrences(key, ListedNames(call.args[1]))
            IN  /\ n = 0 => RecordsOf(_callbacks, key) = RecordsOf(before, key)
                /\ n = 1 => RecordsOf(_callbacks, key)
                                = WithoutFirst(RecordsOf(before, key), call.args[2])

\* C3: trigger(typeList, data, rawEvent) with several event names dispatches
\* one event per name, left to right, each to the subscribers of that name and
\* then to the subscribers of "all".
C3_TriggerEachType ==
    (call.op = "trigger" /\ Len(ListedNames(call.args[1])) >= 2) =>
        fired = TriggerEach(before, ListedNames(call.args[1]), call.args[2], call.args[3]).log

\* C4: on(typeList, cb), for a cb not subscribed before and a typeList without
\* "all", registers cb under every event name of the list: afterwards a trigger
\* of a name invokes cb once per occurrence of the name in the list (exactly
\* once for a name listed once) and zero times for a name that is not listed.
C4_OnRegistersEveryType ==
    (/\ call.op = "on"
     /\ \A key \in DOMAIN before : RecordsWith(before[key], call.args[2]) = <<>>
     /\ Occurrences(AllKey, ListedNames(call.args[1])) = 0)
    => \A w \in Words :
         InvokedTimes(call.args[2], Invocations(_callbacks, Str(<<w>>)))
            = Occurrences(<<w>>, ListedNames(call.args[1]))

\* on("hello, hi", f) on an empty registry: f is invoked once by "hello", once by "hi"
C4_Witness ==
    /\ call = [op |-> "on", args |-> <<HelloHi, Func("f"), Undefined>>]
    /\ before = EmptyRegistry
    /\ InvokedTimes(Func("f"), Invocations(_callbacks, Hello)) = 1
    /\ InvokedTimes(Func("f"), Invocations(_callbacks, Str(<<"hi">>))) = 1
    /\ InvokedTimes(Func("f"), Invocations(_callbacks, Str(<<"all">>))) = 0

\* C5: off() without a type empties the registry, and while the registry is
\* empty every call other than on/once (a trigger or a delivered message of any
\* type, "all" included) invokes no callback and leaves the registry empty.
C5_OffAllSilences ==
    [][/\ (call'.op = "off" /\ Falsy(call'.args[1])) => _callbacks' = EmptyRegistry
       /\ (_callbacks = EmptyRegistry /\ call'.op \notin {"on", "once"})
            => (fired' = <<>> /\ _callbacks' = EmptyRegistry)]_vars

\* off() has just emptied a registry that held a wildcard subscriber
C5_Witness ==
    /\ call.op = "off"
    /\ Falsy(call.args[1])
    /\ Has(before, AllKey)
    /\ TotalSubs(before) >= 2
    /\ _callbacks = EmptyRegistry

\* C6: every dispatch invokes all subscribers of the event's exact type, in
\* order, and then all subscribers of "all", whatever the type of the event.
C6_WildcardAfterSpecific ==
    dispatched # <<>> =>
        LET e == dispatched[1]
        IN  fired = InvokeAll(RecordsOf(before, ToPropertyKey(e.type)), e)
                    \o InvokeAll(RecordsOf(before, AllKey), e)

\* a dispatch of "hello" invoked the subscriber of "hello" and then the wildcard subscriber
C6_Witness ==
    /\ dispatched # <<>>
    /\ dispatched[1].type = Hello
    /\ Len(RecordsOf(before, <<"hello">>)) = 1
    /\ Len(RecordsOf(before, AllKey)) = 1
    /\ before[<<"hello">>][1].callback # before[AllKey][1].callback
    /\ Len(fired) = 2
    /\ fired[1].callback = before[<<"hello">>][1].callback
    /\ fired[2].callback = before[AllKey][1].callback

\* a dispatch of a type without subscribers invoked the wildcard subscriber
C6_WitnessNoSpecific ==
    /\ dispatched # <<>>
    /\ ~Has(before, ToPropertyKey(dispatched[1].type))
    /\ Has(before, AllKey)
    /\ fired # <<>>

\* the envelopes a peer sends: send(type, data) of an endpoint with connectionID c
PeerEnvelopes ==
    {[connectionID |-> c, type |-> t, text |-> JSONstringify(Envelope(c, t, d))] :
        c \in ConnectionIDs \cup {Undefined, Null},
        t \in {Hello, Undefined},
        d \in {Null, DataObject}}

\* the last call was a message event from the configured target window
FromTarget == call.op = "message" /\ call.args[1] = _targetWindow

\* C7: a structured envelope from the target window is dispatched if and only
\* if the local connectionID is absent or equals the envelope's connectionID;
\* otherwise (also for an envelope without connectionID) no callback is invoked.
C7_ConnectionFilter ==
    \A env \in PeerEnvelopes :
        (FromTarget /\ call.args[2] = env.text) =>
            IF _connectionID = Null \/ _connectionID = env.connectionID
            THEN Len(dispatched) = 1 /\ dispatched[1].type = env.type /\ thrown = NoError
            ELSE dispatched = <<>> /\ fired = <<>> /\ thrown = NoError /\ _callbacks = before

\* an envelope of connection "svc2" reached an endpoint of connection "svc1"
\* that has a subscriber of its type: nothing was invoked
C7_Witness ==
    /\ FromTarget
    /\ _connectionID = Str(<<"svc1">>)
    /\ call.args[2] = JSONstringify(Envelope(Str(<<"svc2">>), Hello, DataObject))
    /\ Has(before, <<"hello">>)
    /\ dispatched = <<>>
    /\ fired = <<>>

\* C8: a message whose source is not the currently configured target window
\* invokes no callback, whatever its payload and whatever set() calls came before.
C8_ForeignSourceDropped ==
    (call.op = "message" /\ call.args[1] # _targetWindow) =>
        /\ dispatched = <<>>
        /\ fired = <<>>
        /\ thrown = NoError
        /\ _callbacks = before

\* after set() moved the target to the frame, the former target sent a
\* well-formed envelope with the local connectionID to a subscribed endpoint
C8_Witness ==
    /\ call.op = "message"
    /\ call.args[1] = Win("parent")
    /\ _targetWindow = Win("frame")
    /\ _connectionID = Str(<<"svc1">>)
    /\ call.args[2] = JSONstringify(Envelope(_connectionID, Hello, DataObject))
    /\ Has(_callbacks, <<"hello">>)
    /\ fired = <<>>

\* the event of the raw fallback channel for a payload
MessageEvent(payload) == InternalEvent(Str(<<"message">>), Null, payload)

C10_SendRejectsScalars ==
    (call.op = "send" /\ _targetWindow \in Windows) =>
        LET data == call.args[2]
        IN  /\ data.kind \in {"string", "number", "boolean"}
                => (thrown = IncorrectDataType /\ posted = <<>>)
            /\ data.kind \in {"undefined", "object"}
                => /\ thrown = NoError
                   /\ Len(posted) = 1
                   /\ posted[1].message =
                        JSONstringify(Envelope(_connectionID,
                                               call.args[1],
                                               IF data = Undefined THEN Null ELSE data))

\* C11: set(sets) replaces the target window, the target origin and the
\* connectionID and leaves the registry as it was, so every type invokes the
\* same callbacks in the same order as before the call; and set is idempotent:
\* a second set with the same argument would store the settings already held.
C11_SetKeepsSubscriptions ==
    call.op = "set" =>
        /\ _callbacks = before
        /\ \A t \in ChannelTypes : Invocations(_callbacks, t) = Invocations(before, t)
        /\ LET again == set(call.args[1])
           IN  config = <<again.targetWindow, again.targetOrigin, again.connectionID>>

\* set moved a subscribed endpoint to the frame and gave it a connectionID
C11_Witness ==
    /\ call.op = "set"
    /\ TotalSubs(before) >= 2
    /\ Invocations(_callbacks, Hello) # <<>>
    /\ _targetWindow = Win("frame")
    /\ _connectionID = Str(<<"svc1">>)
    /\ _targetOrigin = Str(<<"http://peer">>)

\* the text that sendRAW(value) of a peer endpoint posts
RawWire(value) == sendRAW(Win("frame"), Str(<<"*">>), value).posted[1].message

\* C12: every message a peer sends with sendRAW(value), for a string, a
\* number, an object or null, when delivered from the target window, is
\* dispatched as one event of type "message" to the subscribers of "message"
\* (and then to those of "all").
C12_RawDispatchedAsMessage ==
    \A m \in RawMessages :
        (FromTarget /\ call.args[2] = RawWire(m)) =>
            /\ Len(dispatched) = 1
            /\ dispatched[1].type = Str(<<"message">>)
            /\ fired = InvokeAll(RecordsOf(before, <<"message">>), dispatched[1])
                        \o InvokeAll(RecordsOf(before, AllKey), dispatched[1])

RECURSIVE SameValue(_, _)
\* two values are the same data: equal scalars, or objects that hold the same
\* data under every property name (a property that holds undefined counts as absent)
SameValue(a, b) ==
    IF a.kind = "object" /\ b.kind = "object"
    THEN \A k \in {a.props[i].k : i \in 1..Len(a.props)} \cup {b.props[i].k : i \in 1..Len(b.props)} :
            SameValue(Get(a, k), Get(b, k))
    ELSE a = b

\* C13: round trip.  The text that send(t, d) posts from an endpoint with
\* connectionID id, delivered from the target window to an endpoint whose
\* connectionID is absent or equal to id, produces exactly one dispatch whose
\* event has type t, data d and as rawEvent the envelope {connectionID: id,
\* type: t, data: d}.
C13_RoundTrip ==
    \A id \in ConnectionIDs \cup {Null}, t \in {Hello, Undefined}, d \in RoundTripData :
        (/\ FromTarget
         /\ call.args[2] = SendWire(id, t, d)
         /\ _connectionID = Null \/ _connectionID = id)
        => /\ Len(dispatched) = 1
           /\ dispatched[1].type = t
           /\ SameValue(dispatched[1].data, d)
           /\ SameValue(dispatched[1].rawEvent, Envelope(id, t, d))
           /\ thrown = NoError

\* the envelope of send("hello", NestedData) from connection "svc1" reached a
\* subscriber of "hello" on an endpoint of the same connection
C13_Witness ==
    /\ FromTarget
    /\ _connectionID = Str(<<"svc1">>)
    /\ call.args[2] = SendWire(_connectionID, Hello, NestedData)
    /\ Len(fired) = 1
    /\ fired[1].e = InternalEvent(Hello, NestedData, Envelope(_connectionID, Hello, NestedData))

RECURSIVE IsSubsequence(_, _)
\* a is b with some elements left out, the others in the order of b
IsSubsequence(a, b) ==
    IF a = <<>> THEN TRUE
    ELSE IF b = <<>> THEN FALSE
    ELSE IF Head(a) = Head(b) THEN IsSubsequence(Tail(a), Tail(b))
    ELSE IsSubsequence(a, Tail(b))

\* the elements of a sequence
Range(seq) == {seq[i] : i \in 1..Len(seq)}

\* the callbacks of a sequence of records or invocations, in order
CallbacksOf(seq) == [i \in 1..Len(seq) |-> seq[i].callback]

\* C14: within one dispatch the subscribers of the type, and likewise those of
\* "all", are invoked in the order of their registration, whatever on/once/off
\* calls built the registry: on and once put the new subscriber after all
\* earlier ones of each name, no other call reorders the subscribers of a name,
\* and a dispatch invokes the subscribers of a name from first to last.
C14_RegistrationOrder ==
    /\ call.op \in {"on", "once"} =>
         \A key \in DOMAIN _callbacks :
            LET old == RecordsOf(before, key)
                new == _callbacks[key]
            IN  /\ Len(new) >= Len(old)
                /\ SubSeq(new, 1, Len(old)) = old
                /\ \A i \in (Len(old) + 1)..Len(new) : new[i].callback = call.args[2]
    /\ call.op \in {"off", "trigger", "message"} =>
         \A key \in DOMAIN _callbacks :
            IsSubsequence(_callbacks[key], RecordsOf(before, key))
    /\ dispatched # <<>> =>
         CallbacksOf(fired) =
            CallbacksOf(RecordsOf(before, ToPropertyKey(dispatched[1].type)))
            \o CallbacksOf(RecordsOf(before, AllKey))

\* g was subscribed to "hello" after f: a dispatch of "hello" invokes f, then g
C14_Witness ==
    /\ call.op \in {"on", "once"}
    /\ call.args[2] = Func("g")
    /\ CallbacksOf(RecordsOf(before, <<"hello">>)) = <<Func("f")>>
    /\ CallbacksOf(Invocations(_callbacks, Hello)) = <<Func("f"), Func("g")>>

\* the subscriptions a dispatch of type reaches: those of the type, then those
\* of "all" (the same subscriptions when the type is "all")
Registered(cbs, type) ==
    IF ToPropertyKey(type) = AllKey
    THEN RecordsOf(cbs, AllKey)
    ELSE RecordsOf(cbs, ToPropertyKey(type)) \o RecordsOf(cbs, AllKey)

\* the invoked callbacks of a log that call off
OffCallers(log) ==
    {log[i].callback : i \in 1..Len(log)}
        \cap {Func("offSelf"), Func("offOther"), Func("offType"), Func("offAll")}

\* the callbacks whose subscriptions the off call of caller, made during a
\* dispatch of type from registry cbs, removes
RemovalTargets(caller, cbs, type) ==
    CASE caller = Func("offSelf")  -> {caller}
      [] caller = Func("offOther") -> {Func("f")}
      [] caller = Func("offType")  ->
            {r.callback : r \in {RecordsOf(cbs, ToPropertyKey(type))[i] :
                                    i \in 1..Len(RecordsOf(cbs, ToPropertyKey(type)))}}
      [] caller = Func("offAll")   ->
            UNION {{cbs[k][i].callback : i \in 1..Len(cbs[k])} : k \in DOMAIN cbs}

\* C15: when a callback invoked during a dispatch of type T calls off (off(T,
\* itself), off(T, another callback), off(T) or off()), every subscription
\* that was registered for T or for "all" when the dispatch began, and whose
\* callback is not a target of the removal, is invoked exactly once in that
\* dispatch.
C15_OffDuringDispatch ==
    call.op = "trigger" =>
        LET T    == call.args[1]
            subs == Registered(before, T)
        IN  \A caller \in OffCallers(fired) : \A i \in 1..Len(subs) :
                (/\ subs[i].callback # caller
                 /\ subs[i].callback \notin RemovalTargets(caller, before, T))
                => InvokedTimes(subs[i].callback, fired)
                      = Len(RecordsWith(subs, subs[i].callback))

\* the statement of C15 for the dispatches of every type other than "all" in
\* which no callback subscribes
C15_OffDuringDispatchOfNamedType ==
    (/\ call.op = "trigger"
     /\ call.args[1] # Str(<<"all">>)
     /\ Range(CallbacksOf(fired)) \cap {Func("onType"), Func("onAll")} = {})
    => C15_OffDuringDispatch

\* C16: the handler of inbound messages never raises: for every source, every
\* payload (an envelope, JSON that is not an object, text that is not JSON)
\* and every local connectionID, set or not, the call returns normally and
\* has either dispatched the message or dropped it without any effect.
C16_ReceiveNeverRaises ==
    call.op = "message" =>
        /\ thrown = NoError
        /\ Len(dispatched) = 1 \/ (dispatched = <<>> /\ fired = <<>> /\ _callbacks = before)

\* C17: off(typeList) without a callback removes every subscription of each
\* listed name and nothing else: a later trigger of a listed name invokes only
\* the subscribers of "all" (none when "all" is listed), and a trigger of any
\* other name, "all" included, invokes the same subscribers as before.
C17_OffTypesOnly ==
    (call.op = "off" /\ ~Falsy(call.args[1]) /\ Falsy(call.args[2])) =>
        LET listed == {ListedNames(call.args[1])[i] : i \in 1..Len(ListedNames(call.args[1]))}
        IN  /\ \A key \in DOMAIN before \cup DOMAIN _callbacks :
                RecordsOf(_callbacks, key)
                    = IF key \in listed THEN <<>> ELSE RecordsOf(before, key)
            /\ \A w \in Words :
                Invocations(_callbacks, Str(<<w>>)) =
                    IF <<w>> \in listed
                    THEN IF AllKey \in listed
                         THEN <<>>
                         ELSE InvokeAll(RecordsOf(before, AllKey),
                                        InternalEvent(Str(<<w>>), Null, Undefined))
                    ELSE IF AllKey \in listed
                         THEN InvokeAll(RecordsOf(before, <<w>>),
                                        InternalEvent(Str(<<w>>), Null, Undefined))
                         ELSE Invocations(before, Str(<<w>>))

\* off("hello") removed the subscriber of "hello" and kept those of "hi" (or "all")
C17_Witness ==
    /\ call.op = "off"
    /\ call.args = <<Hello, Undefined>>
    /\ Has(before, <<"hello">>)
    /\ ~Has(_callbacks, <<"hello">>)
    /\ TotalSubs(_callbacks) >= 1
    /\ TotalSubs(before) = TotalSubs(_callbacks) + 1

\* C18: when once("A, B", cb) registered cb under two names, a dispatch of A
\* removes the registration from A only: afterwards A holds none of its once
\* registrations (a later trigger of A does not invoke cb) and B still holds
\* the registration of cb (the next trigger of B invokes it once).
C18_OnceRemovedFromFiredTypeOnly ==
    dispatched # <<>> =>
        LET A == ToPropertyKey(dispatched[1].type)
        IN  \A B \in DOMAIN before \ {A, AllKey} :
              A # AllKey =>
                \A r \in Range(RecordsOf(before, A)) \cap Range(before[B]) :
                    ~Falsy(r.once) =>
                        /\ r \notin Range(RecordsOf(_callbacks, A))
                        /\ InvokedTimes(r.callback, Invocations(_callbacks, dispatched[1].type)) = 0
                        /\ RecordsOf(_callbacks, B) = before[B]

\* C19: every subscription of "all" is invoked exactly once per dispatched
\* event, for every type of event, the type "all" included: a callback is
\* invoked once for each of its subscriptions that the dispatch reaches.
C19_WildcardOncePerEvent ==
    dispatched # <<>> =>
        LET subs == Registered(before, dispatched[1].type)
        IN  \A r \in Range(RecordsOf(before, AllKey)) :
                InvokedTimes(r.callback, fired) = Len(RecordsWith(subs, r.callback))

\* the invoked callbacks of a log that call on
OnCallers(log) == Range(CallbacksOf(log)) \cap {Func("onType"), Func("onAll")}

\* C20: a subscription that a callback adds while a trigger is in progress is
\* not invoked by that trigger, in neither phase and whether or not "all"
\* already had subscribers: the trigger invokes exactly the subscriptions of
\* the type and then of "all" that existed when it began; the added
\* subscription is in the registry for later triggers.
C20_AddedNotInvokedBySameTrigger ==
    (call.op = "trigger" /\ OnCallers(fired) # {}) =>
        LET e == dispatched[1]
        IN  /\ fired = InvokeAll(RecordsOf(before, ToPropertyKey(e.type)), e)
                       \o InvokeAll(RecordsOf(before, AllKey), e)
            /\ TotalSubs(_callbacks) > TotalSubs(before)

====
